---- MODULE Spec2Model ----
(***************************************************************************)
(* A model of selenium_respectful.RespectfulWebdriver                       *)
(* (src/selenium_respectful/respectful_webdriver.py): the realm registry,   *)
(* the request ledger kept in Redis, the admission check of                 *)
(* _perform_webdriver_get and the wait loop of _webdriver_get.              *)
(*                                                                         *)
(* The Redis database is the state.  Time is counted in whole seconds: one  *)
(* Tick is one second, and a key written by SETEX with a TTL of t seconds   *)
(* is gone after t Ticks.  A stored integer is kept as the integer: Redis   *)
(* stores str(v) and realm_max_requests / realm_timespan read int(...) of   *)
(* it, which gives v back for every Python int.                             *)
(***************************************************************************)
EXTENDS Integers, Sequences, FiniteSets, TLC

\* ------------------------------------------------------------------ bounds
MaxRequests == 2      \* largest max_requests a caller registers or updates to
MaxTimespan == 2      \* largest timespan (seconds) a caller registers or updates to
MaxSafety == 1        \* largest configured safety_threshold
MaxCalls == 3         \* back-to-back blocking calls of one series
NProcs == 2           \* processes making get calls on the same database

\* ------------------------------------------------------------- realm names
\* A realm name is a string, modelled as the sequence of its characters.
PlainRealms == {<<"A">>, <<"B">>}
RealmNames == PlainRealms \cup {<<"A", ":", "B">>}

\* Argument lists of a get call: realms named at most once, in call order.
RealmLists(S) ==
    {<<>>} \cup {<<r>> : r \in S} \cup {p \in S \X S : p[1] # p[2]}

\* The values callers give: the smallest ones and the largest.
MaxRequestsValues == {0, 1, MaxRequests}
TimespanValues == {1, MaxTimespan}
SafetyValues == {0, MaxSafety}
Ttls == 1..MaxTimespan

VARIABLES
    realmInfo,         \* realm -> the hash at "<prefix>:REALMS:<realm>" (field -> value)
    registeredRealms,  \* the set at "<prefix>:REALMS"
    requests,          \* realm -> remaining TTL -> number of keys "<prefix>:REQUEST:<realm>:<uuid>"
    safety_threshold,  \* self.config["safety_threshold"]
    pc,                \* where the caller is: "idle", or inside the wait loop
    call,              \* the arguments of the get call in progress
    last,              \* the caller's most recent call and what it returned or raised
    series,            \* the grants on one watched realm, with their times
    workers            \* process -> where it is inside _perform_webdriver_get

vars == <<realmInfo, registeredRealms, requests, safety_threshold, pc, call,
          last, series, workers>>

store == <<realmInfo, registeredRealms, requests>>

\* ------------------------------------------------------------- Redis keys
redis_prefix == "SeleniumRequester"

\* "%s:REQUEST:%s:%s" % (self.redis_prefix, realm, request_uuid)
RequestKey(realm, request_uuid) ==
    <<redis_prefix, ":", "REQUEST", ":">> \o realm \o <<":", request_uuid>>

\* "%s:REQUEST:%s:*" % (self.redis_prefix, realm)
RequestPattern(realm) ==
    <<redis_prefix, ":", "REQUEST", ":">> \o realm \o <<":", "*">>

\* Redis glob matching of a key against a MATCH / KEYS pattern: "*" matches
\* any run of characters, "?" any one character, anything else itself.
RECURSIVE GlobMatch(_, _)
GlobMatch(pattern, key) ==
    IF pattern = <<>> THEN key = <<>>
    ELSE IF Head(pattern) = "*"
        THEN GlobMatch(Tail(pattern), key)
             \/ (key # <<>> /\ GlobMatch(pattern, Tail(key)))
    ELSE IF key = <<>> THEN FALSE
    ELSE IF Head(pattern) = "?" THEN GlobMatch(Tail(pattern), Tail(key))
    ELSE Head(pattern) = Head(key) /\ GlobMatch(Tail(pattern), Tail(key))

\* A uuid4 string: no ":" and no glob character in it.
Uuid == "uuid4"

\* ------------------------------------------------------------ Redis hashes
EmptyHash == [f \in {} |-> 0]

HExists(hash, field) == field \in DOMAIN hash

HSet(hash, field, value) ==
    [f \in DOMAIN hash \cup {field} |-> IF f = field THEN value ELSE hash[f]]

\* ----------------------------------------------------------- small helpers
RECURSIVE SumOver(_, _)
SumOver(f, S) ==
    IF S = {} THEN 0
    ELSE LET x == CHOOSE y \in S : TRUE IN f[x] + SumOver(f, S \ {x})

Range(s) == {s[i] : i \in DOMAIN s}

RECURSIVE SumTo(_, _)
SumTo(f, n) == IF n = 0 THEN 0 ELSE f[n] + SumTo(f, n - 1)

\* The number of live request keys written for one realm.
LiveLeases(reqs, realm) == SumTo(reqs[realm], MaxTimespan)

NoRequests == [r \in RealmNames |-> [t \in Ttls |-> 0]]

\* -------------------------------------------------------------- the store
\* The three kinds of key the class writes, as one value the operations map
\* to a new one.
Db == [info |-> realmInfo, reg |-> registeredRealms, reqs |-> requests]

\* The realms whose request keys a KEYS / SCAN with realm's pattern returns.
Matched ==
    [realm \in RealmNames |->
        {r \in RealmNames : GlobMatch(RequestPattern(realm), RequestKey(r, Uuid))}]

MatchedRealms(realm) == Matched[realm]

\* ------------------------------------------------------- the realm registry
\* register_realm without the hexists test.
register_realm_overwrite(db, realm, max_requests, timespan) ==
    [db EXCEPT
        !.info[realm] = HSet(HSet(@, "max_requests", max_requests),
                             "timespan", timespan),
        !.reg = @ \cup {realm}]

register_realm(db, realm, max_requests, timespan) ==
    IF ~HExists(db.info[realm], "max_requests")
    THEN [db EXCEPT
            !.info[realm] = HSet(HSet(@, "max_requests", max_requests),
                                 "timespan", timespan),
            !.reg = @ \cup {realm}]
    ELSE db

RECURSIVE register_realms(_, _)
register_realms(db, realm_tuples) ==
    IF realm_tuples = <<>> THEN db
    ELSE LET t == Head(realm_tuples)
         IN register_realms(register_realm(db, t[1], t[2], t[3]),
                            Tail(realm_tuples))

\* kwargs: a function from the keyword names given to their values; a value
\* is [type |-> "int", val |-> n] or a value of another Python type.
updatable_keys == <<"max_requests", "timespan">>

RECURSIVE UpdateKeys(_, _, _)
UpdateKeys(hash, keys, kwargs) ==
    IF keys = <<>> THEN hash
    ELSE LET k == Head(keys)
         IN UpdateKeys(IF k \in DOMAIN kwargs /\ kwargs[k].type = "int"
                           THEN HSet(hash, k, kwargs[k].val)
                           ELSE hash,
                       Tail(keys), kwargs)

\* update_realm without the test of the value's type.
update_realm_any_type(db, realm, kwargs) ==
    [db EXCEPT !.info[realm] =
        [f \in DOMAIN @ \cup (DOMAIN kwargs \cap Range(updatable_keys)) |->
            IF f \in DOMAIN kwargs THEN kwargs[f].val ELSE @[f]]]

update_realm(db, realm, kwargs) ==
    [db EXCEPT !.info[realm] = UpdateKeys(@, updatable_keys, kwargs)]

unregister_realm(db, realm) ==
    [db EXCEPT
        !.info[realm] = EmptyHash,
        !.reg = @ \ {realm},
        !.reqs = [r \in RealmNames |->
                    IF r \in MatchedRealms(realm)
                    THEN [t \in Ttls |-> 0] ELSE @[r]]]

RECURSIVE unregister_realms(_, _)
unregister_realms(db, realms) ==
    IF realms = <<>> THEN db
    ELSE unregister_realms(unregister_realm(db, Head(realms)), Tail(realms))

\* The registry read off the realm hashes instead of the index.
fetch_realms_with_info(db) ==
    {realm \in RealmNames : HExists(db.info[realm], "max_requests")}

fetch_registered_realms(db) == db.reg

\* ------------------------------------------------------ the request ledger
\* len(scan(cursor=0, match=pattern, count=keys + 100)[1]): the scan visits
\* the whole keyspace and returns every key the pattern matches.
requests_in_timespan(db, realm) ==
    LET counts == [r \in RealmNames |-> LiveLeases(db.reqs, r)]
    IN SumOver(counts, MatchedRealms(realm))

\* can_perform_get without the safety threshold.
can_perform_get_no_threshold(db, realm) ==
    requests_in_timespan(db, realm) < db.info[realm]["max_requests"]

\* can_perform_get with <= for <.
can_perform_get_inclusive(db, realm) ==
    requests_in_timespan(db, realm)
        <= db.info[realm]["max_requests"] - safety_threshold

\* self._requests_in_timespan(realm) < realm_max_requests(realm) - safety_threshold
can_perform_get(db, realm) ==
    requests_in_timespan(db, realm)
        < db.info[realm]["max_requests"] - safety_threshold

realm_max_requests(db, realm) == db.info[realm]["max_requests"]

\* realm_timespan reading the other field of the hash.
realm_timespan_other_field(db, realm) == db.info[realm]["max_requests"]

realm_timespan(db, realm) == db.info[realm]["timespan"]

\* SETEX of one fresh key "<prefix>:REQUEST:<realm>:<uuid>" with TTL time.
\* setex with a TTL one second short.
SetexRequestShort(reqs, realm, time) ==
    IF time - 1 \in Ttls THEN [reqs EXCEPT ![realm][time - 1] = @ + 1] ELSE reqs

SetexRequest(reqs, realm, time) == [reqs EXCEPT ![realm][time] = @ + 1]

\* ------------------------------------------------------------ the actuator
\* get_func as _validate_get_func sees it: whether it is a lambda, and the
\* source text after the lambda's colon, as tokens.
WebdriverLambda ==
    [is_lambda |-> TRUE,
     calls |-> "self.webdriver.get",
     source |-> <<"return self._webdriver_get(", "lambda", ":", " ",
                  "self.webdriver.get", "(*args, **kwargs)",
                  ", realms=realms, wait=wait)">>]

\* get_func values a caller of _webdriver_get can pass: whether the object is
\* a lambda, the one callable its body calls ("" when the body is no call),
\* and source, the text inspect.getsource gives, cut into pieces at the places
\* the check looks at.
GetFuncs ==
    { WebdriverLambda,
      [is_lambda |-> TRUE, calls |-> "",
       source |-> <<"lambda", ":", " ", "1 + 1">>],
      [is_lambda |-> TRUE, calls |-> "self.webdriver.get_cookies",
       source |-> <<"lambda", ":", " ", "self.webdriver.get", "_cookies", "()">>],
      [is_lambda |-> FALSE, calls |-> "", source |-> <<>>] }

StartsWith(s, prefix) ==
    Len(s) >= Len(prefix) /\ SubSeq(s, 1, Len(prefix)) = prefix

\* str.split(sep): the pieces of s between the occurrences of sep.
RECURSIVE Split(_, _)
Split(s, sep) ==
    IF \A i \in DOMAIN s : s[i] # sep THEN <<s>>
    ELSE LET i == CHOOSE j \in DOMAIN s :
                    s[j] = sep /\ \A k \in 1..(j - 1) : s[k] # sep
         IN <<SubSeq(s, 1, i - 1)>> \o Split(SubSeq(s, i + 1, Len(s)), sep)

\* str.strip(): s without the blanks at its ends.
RECURSIVE Strip(_)
Strip(s) ==
    IF s # <<>> /\ Head(s) = " " THEN Strip(Tail(s))
    ELSE IF s # <<>> /\ s[Len(s)] = " " THEN Strip(SubSeq(s, 1, Len(s) - 1))
    ELSE s

\* get_func_string.split(":")[1].strip()
post_lambda_string(get_func) == Strip(Split(get_func.source, ":")[2])

\* "" when get_func passes, else what the SeleniumRespectfulError is about.
ValidationOf(get_func) ==
    IF ~get_func.is_lambda THEN "not_a_lambda"
    ELSE IF ~StartsWith(post_lambda_string(get_func), <<"self.webdriver.get">>)
        THEN "not_a_webdriver_get"
    ELSE ""

\* The check's verdict on each get_func, worked out once.
Validation == [get_func \in GetFuncs |-> ValidationOf(get_func)]

validate_get_func(get_func) == Validation[get_func]

\* What get_func() does when called: webdriver.get returns, or raises.
ActuatorResults == {"returns", "raises"}

\* ----------------------------------------------------- the admission check
\* The outcome of a call: status "returned" | "raised" | "waiting"; exc the
\* exception class; why its message; named the realms the message names;
\* invoked the number of times get_func was called; slept whether the call
\* has been through time.sleep(1).
Outcome(status, exc, why, named, invoked, db) ==
    [status |-> status, exc |-> exc, why |-> why, named |-> named,
     invoked |-> invoked, db |-> db]

\* The loop of lines 205-212: one SETEX per realm, in order; it stops with
\* a KeyError at the first realm whose hash has no timespan.
RECURSIVE IssueLeases(_, _)
IssueLeases(db, realms) ==
    IF realms = <<>> THEN [db |-> db, ok |-> TRUE]
    ELSE LET realm == Head(realms)
         IN IF ~HExists(db.info[realm], "timespan")
            THEN [db |-> db, ok |-> FALSE]
            ELSE IssueLeases(
                    [db EXCEPT !.reqs = SetexRequest(@, realm,
                                                     realm_timespan(db, realm))],
                    Tail(realms))

\* The check loop leaving at the first realm that cannot perform the get.
rate_limited_realms_first_only(db, realms) ==
    LET all == SelectSeq(realms, LAMBDA realm : ~can_perform_get(db, realm))
    IN IF all = <<>> THEN all ELSE <<Head(all)>>

rate_limited_realms(db, realms) ==
    SelectSeq(realms, LAMBDA realm : ~can_perform_get(db, realm))

\* _perform_webdriver_get writing the request keys before it checks.
perform_webdriver_get_keys_first(db, get_func, realms, actuator) ==
    IF validate_get_func(get_func) # ""
    THEN Outcome("raised", "SeleniumRespectfulError",
                 validate_get_func(get_func), <<>>, 0, db)
    ELSE IF \E i \in DOMAIN realms : ~HExists(db.info[realms[i]], "max_requests")
    THEN Outcome("raised", "KeyError", "max_requests", <<>>, 0, db)
    ELSE LET issued == IssueLeases(db, realms)
         IN IF ~issued.ok
            THEN Outcome("raised", "KeyError", "timespan", <<>>, 0, issued.db)
            ELSE IF rate_limited_realms(db, realms) # <<>>
            THEN Outcome("raised", "SeleniumRespectfulRateLimitedError",
                         "rate_limited", rate_limited_realms(db, realms), 0,
                         issued.db)
            ELSE IF actuator = "raises"
            THEN Outcome("raised", "WebDriverException", "get_func", <<>>, 1,
                         issued.db)
            ELSE Outcome("returned", "", "", <<>>, 1, issued.db)

perform_webdriver_get(db, get_func, realms, actuator) ==
    IF validate_get_func(get_func) # ""
    THEN Outcome("raised", "SeleniumRespectfulError",
                 validate_get_func(get_func), <<>>, 0, db)
    ELSE IF \E i \in DOMAIN realms : ~HExists(db.info[realms[i]], "max_requests")
    THEN Outcome("raised", "KeyError", "max_requests", <<>>, 0, db)
    ELSE IF rate_limited_realms(db, realms) = <<>>
    THEN LET issued == IssueLeases(db, realms)
         IN IF ~issued.ok
            THEN Outcome("raised", "KeyError", "timespan", <<>>, 0, issued.db)
            ELSE IF actuator = "raises"
            THEN Outcome("raised", "WebDriverException", "get_func", <<>>, 1,
                         issued.db)
            ELSE Outcome("returned", "", "", <<>>, 1, issued.db)
    ELSE Outcome("raised", "SeleniumRespectfulRateLimitedError", "rate_limited",
                 rate_limited_realms(db, realms), 0, db)

\* except SeleniumRespectfulRateLimitedError: pass
\* An except clause that takes every error of the library.
CaughtAny(exc) ==
    exc \in {"SeleniumRespectfulRateLimitedError", "SeleniumRespectfulError"}

Caught(exc) == exc = "SeleniumRespectfulRateLimitedError"

\* ------------------------------------------------------------- the caller
NoCall == [op |-> "none"]

\* series.since and series.first saturate: "longer ago than any TTL, or
\* never", and "long enough for MaxCalls grants".
AgeCap == MaxTimespan + 1
FirstCap == MaxTimespan * (MaxCalls - 1)

NoSeries == [realm |-> <<>>, granted |-> 0, first |-> 0, since |-> AgeCap]

IntArg(n) == [type |-> "int", val |-> n]
StrArg == [type |-> "str", val |-> 0]
BoolArg == [type |-> "bool", val |-> 1]

SetDb(db) ==
    /\ realmInfo' = db.info
    /\ registeredRealms' = db.reg
    /\ requests' = db.reqs

EmptyDb ==
    /\ realmInfo = [r \in RealmNames |-> EmptyHash]
    /\ registeredRealms = {}
    /\ requests = NoRequests

\* A process that is not inside a get call, and has made none yet.
Procs == 1..NProcs

NoWorker ==
    [pc |-> "idle", realms |-> <<>>, i |-> 0, seen |-> <<>>, limited |-> <<>>,
     leased |-> <<>>, ttl |-> 0, status |-> "none", exc |-> "", invoked |-> 0]

Idle ==
    /\ pc = "idle"
    /\ call = NoCall
    /\ last = [op |-> "__init__", status |-> "returned"]
    /\ workers = [p \in Procs |-> NoWorker]

\* ------------------------------------------------------- registry calls
\* Each is the whole method, made by the caller between two get calls.
Returned(record) ==
    /\ pc = "idle"
    /\ last' = record
    /\ UNCHANGED <<safety_threshold, pc, call, series, workers>>

RegisterRealm(realm, max_requests, timespan) ==
    /\ SetDb(register_realm(Db, realm, max_requests, timespan))
    /\ Returned([op |-> "register_realm", realm |-> realm,
                 max_requests |-> max_requests, timespan |-> timespan])

RegisterRealms(realm_tuples) ==
    /\ SetDb(register_realms(Db, realm_tuples))
    /\ Returned([op |-> "register_realms", realm_tuples |-> realm_tuples])

UpdateRealm(realm, kwargs) ==
    /\ SetDb(update_realm(Db, realm, kwargs))
    /\ Returned([op |-> "update_realm", realm |-> realm, kwargs |-> kwargs])

UnregisterRealm(realm) ==
    /\ SetDb(unregister_realm(Db, realm))
    /\ Returned([op |-> "unregister_realm", realm |-> realm])

UnregisterRealms(realms) ==
    /\ SetDb(unregister_realms(Db, realms))
    /\ Returned([op |-> "unregister_realms", realms |-> realms])

\* realm_max_requests(realm) / realm_timespan(realm) called by the caller:
\* the field of the hash hgetall returns, or the KeyError of the missing key.
NoValue == -1

ReadRealm(op, realm, field) ==
    /\ UNCHANGED store
    /\ Returned(IF HExists(realmInfo[realm], field)
                THEN [op |-> op, realm |-> realm, status |-> "returned",
                      exc |-> "", value |-> realmInfo[realm][field]]
                ELSE [op |-> op, realm |-> realm, status |-> "raised",
                      exc |-> "KeyError", value |-> NoValue])

RealmMaxRequests(realm) == ReadRealm("realm_max_requests", realm, "max_requests")

RealmTimespan(realm) == ReadRealm("realm_timespan", realm, "timespan")

\* The same methods called by another process on the shared database,
\* between two steps of this caller.
Peer ==
    UNCHANGED <<safety_threshold, pc, call, last, series, workers>>

PeerRegisterRealm(realm, max_requests, timespan) ==
    /\ SetDb(register_realm(Db, realm, max_requests, timespan))
    /\ Peer

PeerUpdateRealm(realm, kwargs) ==
    /\ SetDb(update_realm(Db, realm, kwargs))
    /\ Peer

PeerUnregisterRealm(realm) ==
    /\ SetDb(unregister_realm(Db, realm))
    /\ Peer

\* ------------------------------------------------------------ get calls
\* The end of one call of _perform_webdriver_get inside _webdriver_get:
\* with wait, a caught rate-limit error leads to time.sleep(1) and another
\* turn of the loop; anything else ends the call.
Attempt(op, get_func, realms, wait, slept, invoked, actuator) ==
    \E res \in {perform_webdriver_get(Db, get_func, realms, actuator)} :
    LET waits == wait /\ res.status = "raised" /\ Caught(res.exc)
    IN /\ UNCHANGED <<realmInfo, registeredRealms, safety_threshold, workers>>
       /\ requests' = res.db.reqs
       /\ pc' = IF waits THEN "sleeping" ELSE "idle"
       /\ call' = IF waits
                  THEN [op |-> op, get_func |-> get_func, realms |-> realms,
                        invoked |-> invoked + res.invoked]
                  ELSE NoCall
       /\ last' = [op |-> op, get_func |-> get_func, realms |-> realms,
                   wait |-> wait,
                   status |-> IF waits THEN "waiting" ELSE res.status,
                   exc |-> res.exc, why |-> res.why, named |-> res.named,
                   invoked |-> invoked + res.invoked, slept |-> slept]

Raise(op, get_func, realms, wait, why, named) ==
    /\ last' = [op |-> op, get_func |-> get_func, realms |-> realms,
                wait |-> wait, status |-> "raised",
                exc |-> "SeleniumRespectfulError", why |-> why, named |-> named,
                invoked |-> 0, slept |-> FALSE]
    /\ UNCHANGED <<realmInfo, registeredRealms, requests, safety_threshold, pc,
                   call, workers>>

\* _webdriver_get up to the end of its first call of _perform_webdriver_get.
webdriver_get(op, get_func, realms, wait, actuator) ==
    LET registered_realms == fetch_registered_realms(Db)
        unknown == SelectSeq(realms, LAMBDA realm : realm \notin registered_realms)
    IN IF unknown # <<>>
       THEN Raise(op, get_func, realms, wait, "not_registered", <<Head(unknown)>>)
       ELSE Attempt(op, get_func, realms, wait, FALSE, 0, actuator)

\* driver.get(url, realms=..., wait=...)
selenium_webdriver_proxy_get(realms, wait, actuator) ==
    IF Len(realms) = 0
    THEN Raise("get", WebdriverLambda, realms, wait, "realms_required", <<>>)
    ELSE webdriver_get("get", WebdriverLambda, realms, wait, actuator)

GetCall(realms, wait, actuator) ==
    /\ pc = "idle"
    /\ selenium_webdriver_proxy_get(realms, wait, actuator)

\* _webdriver_get called with a get_func of the caller's own.
WebdriverGetCall(get_func, realms, wait) ==
    /\ pc = "idle"
    /\ webdriver_get("_webdriver_get", get_func, realms, wait, "returns")

\* The next turn of the while loop, after time.sleep(1) has returned.
RetryCall(actuator) ==
    /\ pc = "awake"
    /\ Attempt(call.op, call.get_func, call.realms, TRUE, TRUE, call.invoked,
               actuator)

\* One second passes: every request key's TTL drops by one and the keys at
\* TTL 0 are gone; a caller in time.sleep(1) wakes.
Expire(reqs) ==
    [r \in RealmNames |->
        [t \in Ttls |-> IF t + 1 \in Ttls THEN reqs[r][t + 1] ELSE 0]]

Second ==
    /\ requests' = Expire(requests)
    /\ pc' = IF pc = "sleeping" THEN "awake" ELSE pc
    /\ UNCHANGED <<realmInfo, registeredRealms, safety_threshold, call, last,
                   workers>>

\* ------------------------------------------------- processes side by side
\* A non-blocking get call of process p, one Redis round at a time: the read
\* of the index, for each realm the reads of _can_perform_get, for each realm
\* the read of its timespan with the setex, and the call of get_func. Between
\* two of these steps any other process may take steps of its own.
\* workers[p].seen holds the count p read for each realm it has checked.
Ended(p, status, exc, invoked) ==
    workers' = [workers EXCEPT ![p] =
                    [NoWorker EXCEPT !.realms = workers[p].realms,
                                     !.seen = workers[p].seen,
                                     !.leased = workers[p].leased,
                                     !.status = status,
                                     !.exc = exc,
                                     !.invoked = invoked]]

Begin(p, realms) ==
    /\ workers[p].pc = "idle"
    /\ workers' = [workers EXCEPT ![p] =
            IF Range(realms) \subseteq fetch_registered_realms(Db)
            THEN [NoWorker EXCEPT !.pc = "check", !.realms = realms, !.i = 1,
                                  !.status = "running"]
            ELSE [NoWorker EXCEPT !.realms = realms, !.status = "raised",
                                  !.exc = "SeleniumRespectfulError"]]
    /\ UNCHANGED <<realmInfo, registeredRealms, requests, safety_threshold, pc,
                   call, last, series>>

\* if not self._can_perform_get(realm): rate_limited_realms.append(realm)
Check(p) ==
    LET w == workers[p]
        realm == w.realms[w.i]
    IN /\ w.pc = "check"
       /\ IF ~HExists(realmInfo[realm], "max_requests")
          THEN Ended(p, "raised", "KeyError", 0)
          ELSE \E limited \in {IF can_perform_get(Db, realm) THEN w.limited
                                ELSE Append(w.limited, realm)} :
               IF w.i < Len(w.realms)
               THEN workers' = [workers EXCEPT
                        ![p].i = @ + 1,
                        ![p].seen = Append(@, requests_in_timespan(Db, realm)),
                        ![p].limited = limited]
               ELSE IF limited = <<>>
               THEN workers' = [workers EXCEPT
                        ![p].pc = "lease",
                        ![p].i = 1,
                        ![p].seen = Append(@, requests_in_timespan(Db, realm))]
               ELSE Ended(p, "raised", "SeleniumRespectfulRateLimitedError", 0)
       /\ UNCHANGED <<realmInfo, registeredRealms, requests, safety_threshold,
                      pc, call, last, series>>

\* self.redis.setex(name=..., time=self.realm_timespan(realm), value=...)
\* in one step: the hgetall of realm_timespan and the setex, for realms whose
\* definition no other process changes.
Lease(p) ==
    LET w == workers[p]
        realm == w.realms[w.i]
    IN /\ w.pc = "lease"
       /\ IF ~HExists(realmInfo[realm], "timespan")
          THEN /\ Ended(p, "raised", "KeyError", 0)
               /\ UNCHANGED requests
          ELSE /\ requests' = SetexRequest(requests, realm, realm_timespan(Db, realm))
               /\ workers' = [workers EXCEPT
                        ![p].pc = IF w.i < Len(w.realms) THEN "lease" ELSE "call",
                        ![p].i = @ + 1,
                        ![p].leased = Append(@, realm)]
       /\ UNCHANGED <<realmInfo, registeredRealms, safety_threshold, pc, call,
                      last, series>>

\* The two Redis commands of one setex call, each a step of its own:
\* time=self.realm_timespan(realm), the hgetall of the realm's hash,
ReadTimespan(p) ==
    LET w == workers[p]
        realm == w.realms[w.i]
    IN /\ w.pc = "lease"
       /\ IF ~HExists(realmInfo[realm], "timespan")
          THEN Ended(p, "raised", "KeyError", 0)
          ELSE workers' = [workers EXCEPT ![p].pc = "setex",
                                          ![p].ttl = realm_timespan(Db, realm)]
       /\ UNCHANGED <<realmInfo, registeredRealms, requests, safety_threshold,
                      pc, call, last, series>>

\* and self.redis.setex(name, time, value) with the timespan that was read.
Setex(p) ==
    LET w == workers[p]
        realm == w.realms[w.i]
    IN /\ w.pc = "setex"
       /\ requests' = SetexRequest(requests, realm, w.ttl)
       /\ workers' = [workers EXCEPT
                ![p].pc = IF w.i < Len(w.realms) THEN "lease" ELSE "call",
                ![p].i = @ + 1,
                ![p].ttl = 0,
                ![p].leased = Append(@, realm)]
       /\ UNCHANGED <<realmInfo, registeredRealms, safety_threshold, pc, call,
                      last, series>>

\* return get_func()
Invoke(p) ==
    /\ workers[p].pc = "call"
    /\ Ended(p, "returned", "", 1)
    /\ UNCHANGED <<realmInfo, registeredRealms, requests, safety_threshold, pc,
                   call, last, series>>

\* ------------------------------------------------------------------ inputs
\* The keyword arguments given to update_realm: one integer field.
IntKwargs ==
    {[k \in {"max_requests"} |-> IntArg(n)] : n \in MaxRequestsValues}
    \cup {[k \in {"timespan"} |-> IntArg(n)] : n \in TimespanValues}

Requests == RealmLists(PlainRealms)

\* A realm's hash as register_realm writes it.
Definition(max_requests, timespan) ==
    [max_requests |-> max_requests, timespan |-> timespan]

Definitions ==
    {Definition(m, t) : m \in MaxRequestsValues, t \in TimespanValues}

\* ------------------------------------------------------------------- Spec
\* One caller making non-blocking get calls, while realms are registered,
\* updated and unregistered on the shared database.
Init ==
    /\ EmptyDb
    /\ safety_threshold \in SafetyValues
    /\ Idle
    /\ series = NoSeries

ProxyGet(realms, actuator) ==
    GetCall(realms, FALSE, actuator) /\ UNCHANGED series

Next ==
    \/ \E realm \in PlainRealms, m \in MaxRequestsValues, t \in TimespanValues :
            PeerRegisterRealm(realm, m, t)
    \/ \E realm \in registeredRealms, kwargs \in IntKwargs :
            PeerUpdateRealm(realm, kwargs)
    \/ \E realm \in registeredRealms : PeerUnregisterRealm(realm)
    \/ \E realms \in Requests, actuator \in ActuatorResults :
            ProxyGet(realms, actuator)

Spec == Init /\ [][Next]_vars

\* -------------------------------------------------------------- TimedSpec
\* One caller, a registry that stays as it is, and time: get calls with and
\* without wait, the wait loop, and the expiry of the request keys.  Realm
\* <<"A">> is registered and watched; <<"B">> is registered, or not, or has
\* a hash but no entry in the set of registered realms.
Watched == <<"A">>

InitTimed ==
    /\ \E a \in Definitions, b \in Definitions \cup {EmptyHash}, listed \in BOOLEAN :
        /\ realmInfo = [r \in RealmNames |->
                          IF r = <<"A">> THEN a
                          ELSE IF r = <<"B">> THEN b ELSE EmptyHash]
        /\ registeredRealms =
            {<<"A">>} \cup (IF listed /\ b # EmptyHash THEN {<<"B">>} ELSE {})
    /\ requests = NoRequests
    /\ safety_threshold \in SafetyValues
    /\ Idle
    /\ series = [NoSeries EXCEPT !.realm = Watched]

\* A request key written for the watched realm is counted and restarts the
\* realm's clock.
Observe ==
    series' = IF requests'[Watched] # requests[Watched]
              THEN [series EXCEPT !.since = 0,
                                  !.granted = IF @ < MaxCalls THEN @ + 1 ELSE @]
              ELSE series

\* The get_funcs _validate_get_func raises on.
RejectedGetFuncs == {get_func \in GetFuncs : validate_get_func(get_func) # ""}

TimedGet(realms, wait, actuator) ==
    GetCall(realms, wait, actuator) /\ Observe

TimedWebdriverGet(get_func, realms, wait) ==
    WebdriverGetCall(get_func, realms, wait) /\ Observe

TimedRetry(actuator) ==
    RetryCall(actuator) /\ Observe

TimedTick ==
    /\ Second
    /\ series' = [series EXCEPT !.since = IF @ < AgeCap THEN @ + 1 ELSE @]

NextTimed ==
    \/ \E realms \in Requests, wait \in BOOLEAN, actuator \in ActuatorResults :
            TimedGet(realms, wait, actuator)
    \/ \E get_func \in RejectedGetFuncs, realms \in Requests, wait \in BOOLEAN :
            TimedWebdriverGet(get_func, realms, wait)
    \/ \E actuator \in ActuatorResults : TimedRetry(actuator)
    \/ TimedTick

TimedSpec == InitTimed /\ [][NextTimed]_vars

\* --------------------------------------------------------------- RaceSpec
\* NProcs processes making non-blocking get calls side by side on a registry
\* that stays as it is, with time passing.
RaceRequests == {<<(<<"A">>)>>, <<(<<"A">>), (<<"B">>)>>}

InitRace ==
    /\ \E a \in Definitions :
        realmInfo = [r \in RealmNames |->
                        IF r = <<"A">> THEN a
                        ELSE IF r = <<"B">> THEN Definition(MaxRequests, 1)
                        ELSE EmptyHash]
    /\ registeredRealms = PlainRealms
    /\ requests = NoRequests
    /\ safety_threshold \in SafetyValues
    /\ Idle
    /\ series = NoSeries

RaceTick ==
    Second /\ UNCHANGED series

NextRace ==
    \/ \E p \in Procs, realms \in RaceRequests : Begin(p, realms)
    \/ \E p \in Procs : Check(p)
    \/ \E p \in Procs : Lease(p)
    \/ \E p \in Procs : Invoke(p)
    \/ RaceTick

RaceSpec == InitRace /\ [][NextRace]_vars

\* Processes in get calls while other processes register, update and
\* unregister the realms they name: every redis command of lines 177-217 is
\* a step of its own, and the registry methods run between them. Every
\* call names A first; the other processes redefine B, the realm a call over
\* [A, B] reaches last.
InitInterleaved ==
    /\ realmInfo = [r \in RealmNames |->
                        IF r \in PlainRealms THEN Definition(MaxRequests, 1)
                        ELSE EmptyHash]
    /\ registeredRealms = PlainRealms
    /\ requests = NoRequests
    /\ safety_threshold = 0
    /\ Idle
    /\ series = NoSeries

NextInterleaved ==
    \/ \E p \in Procs, realms \in RaceRequests : Begin(p, realms)
    \/ \E p \in Procs : Check(p)
    \/ \E p \in Procs : ReadTimespan(p)
    \/ \E p \in Procs : Setex(p)
    \/ \E p \in Procs : Invoke(p)
    \/ \E m \in MaxRequestsValues, t \in TimespanValues :
            PeerRegisterRealm(<<"B">>, m, t)
    \/ \E kwargs \in IntKwargs : PeerUpdateRealm(<<"B">>, kwargs)
    \/ PeerUnregisterRealm(<<"B">>)

InterleavedSpec == InitInterleaved /\ [][NextInterleaved]_vars

\* ------------------------------------------------------------- ConfigSpec
\* The constructor: _load_config, the webdriver check and the connection to
\* Redis. A configuration is [safety_threshold, redis]: the value of the
\* first key or NoEntry, and the keys the "redis" mapping holds or NoEntry.
NoEntry == [type |-> "missing", val |-> 0]
FloatArg == [type |-> "float", val |-> 1]

expected_redis_keys == {"host", "port", "database"}

default_config == [safety_threshold |-> IntArg(0), redis |-> expected_redis_keys]

NoFile == [exists |-> FALSE]

ConfigFiles ==
    {NoFile}
    \cup { [exists |-> TRUE, safety_threshold |-> t, redis |-> r] :
             t \in {NoEntry, IntArg(-1), IntArg(0), IntArg(MaxSafety), StrArg,
                    FloatArg},
             r \in {NoEntry} \cup {[type |-> "dict", val |-> k] :
                                        k \in SUBSET expected_redis_keys} }

NoneValue == [is_none |-> TRUE]

Loaded(status, exc, value) == [status |-> status, exc |-> exc, value |-> value]

\* _load_config(): what it returns or raises for the file in the directory.
load_config(file) ==
    IF ~file.exists
    THEN Loaded("returned", "", default_config)
    ELSE IF /\ file.safety_threshold # NoEntry
            /\ (file.safety_threshold.type # "int" \/ file.safety_threshold.val < 0)
    THEN Loaded("raised", "SeleniumRespectfulError", NoneValue)
    ELSE IF file.redis = NoEntry
    THEN Loaded("raised", "SeleniumRespectfulError", NoneValue)
    ELSE IF expected_redis_keys \ file.redis.val # {}
    THEN Loaded("raised", "SeleniumRespectfulError", NoneValue)
    ELSE Loaded("returned", "", NoneValue)

\* __init__(webdriver=...): the instance's config, or the error raised.
init(file, webdriver_ok, redis_up) ==
    LET loaded == load_config(file)
    IN IF loaded.status = "raised" THEN loaded
       ELSE IF ~webdriver_ok
       THEN Loaded("raised", "SeleniumRespectfulError", NoneValue)
       ELSE IF loaded.value = NoneValue
       THEN Loaded("raised", "TypeError", NoneValue)
       ELSE IF ~redis_up
       THEN Loaded("raised", "SeleniumRespectfulError", NoneValue)
       ELSE loaded

InitConfig ==
    /\ EmptyDb
    /\ safety_threshold = 0
    /\ pc = "new"
    /\ \E file \in ConfigFiles, webdriver_ok \in BOOLEAN, redis_up \in BOOLEAN :
            call = [op |-> "__init__", file |-> file,
                    webdriver_ok |-> webdriver_ok, redis_up |-> redis_up]
    /\ last = NoCall
    /\ series = NoSeries
    /\ workers = [p \in Procs |-> NoWorker]

Construct ==
    /\ pc = "new"
    /\ \E made \in {init(call.file, call.webdriver_ok, call.redis_up)} :
        /\ last' = [op |-> "__init__", status |-> made.status, exc |-> made.exc,
                    config |-> made.value]
        /\ pc' = IF made.status = "returned" THEN "idle" ELSE "failed"
        /\ safety_threshold' = IF made.status = "returned"
                               THEN made.value.safety_threshold.val
                               ELSE safety_threshold
    /\ UNCHANGED <<realmInfo, registeredRealms, requests, call, series, workers>>

NextConfig == Construct

ConfigSpec == InitConfig /\ [][NextConfig]_vars

\* ------------------------------------------------------------ GetFuncSpec
\* One caller calling _webdriver_get with get_funcs of its own, on a registry
\* that stays as it is, with time passing.
InitGetFunc ==
    /\ \E a \in Definitions, b \in Definitions \cup {EmptyHash} :
        /\ realmInfo = [r \in RealmNames |->
                          IF r = <<"A">> THEN a
                          ELSE IF r = <<"B">> THEN b ELSE EmptyHash]
        /\ registeredRealms =
            {<<"A">>} \cup (IF b # EmptyHash THEN {<<"B">>} ELSE {})
    /\ requests = NoRequests
    /\ safety_threshold \in SafetyValues
    /\ Idle
    /\ series = NoSeries

GetFuncCall(get_func, realms, wait) ==
    WebdriverGetCall(get_func, realms, wait) /\ UNCHANGED series

GetFuncRetry ==
    RetryCall("returns") /\ UNCHANGED series

GetFuncTick ==
    Second /\ UNCHANGED series

NextGetFunc ==
    \/ \E get_func \in GetFuncs, realms \in Requests, wait \in BOOLEAN :
            GetFuncCall(get_func, realms, wait)
    \/ GetFuncRetry
    \/ GetFuncTick

GetFuncSpec == InitGetFunc /\ [][NextGetFunc]_vars

\* --------------------------------------------------------------- WaitSpec
\* One caller making blocking get calls, one after the other, on two
\* registered realms that each admit at least one request; get_func returns.
\* series counts the request keys written for the watched realm and the
\* seconds since the first of them.
InitWait ==
    /\ \E a \in Definitions, b \in Definitions :
        realmInfo = [r \in RealmNames |->
                        IF r = <<"A">> THEN a
                        ELSE IF r = <<"B">> THEN b ELSE EmptyHash]
    /\ registeredRealms = PlainRealms
    /\ requests = NoRequests
    /\ safety_threshold \in SafetyValues
    /\ \A r \in PlainRealms : realmInfo[r]["max_requests"] - safety_threshold >= 1
    /\ Idle
    /\ series = [NoSeries EXCEPT !.realm = Watched]

WaitGet(realms) ==
    /\ series.granted < MaxCalls
    /\ GetCall(realms, TRUE, "returns")
    /\ Observe

WaitRetry ==
    /\ RetryCall("returns")
    /\ Observe

WaitTick ==
    /\ Second
    /\ series' = [series EXCEPT
                    !.since = IF @ < AgeCap THEN @ + 1 ELSE @,
                    !.first = IF series.granted > 0 /\ @ < FirstCap
                              THEN @ + 1 ELSE @]

NextWait ==
    \/ \E realms \in Requests \ {<<>>} : WaitGet(realms)
    \/ WaitRetry
    \/ WaitTick

\* Time keeps passing, and a caller whose time.sleep(1) has returned goes
\* round its loop.
FairWaitSpec ==
    InitWait /\ [][NextWait]_vars /\ WF_vars(WaitTick) /\ WF_vars(WaitRetry)

\* -------------------------------------------------------------- NamesSpec
\* One caller registering, using and unregistering realms whose names share
\* a prefix up to a ":" ("A" and "A:B"), with time passing.
NameLists == {<<r>> : r \in RealmNames} \cup {<<(<<"A">>), (<<"A", ":", "B">>)>>}

InitNames ==
    /\ EmptyDb
    /\ safety_threshold = 0
    /\ Idle
    /\ series = NoSeries

NamesGet(realms) ==
    GetCall(realms, FALSE, "returns") /\ UNCHANGED series

NamesTick ==
    Second /\ UNCHANGED series

NextNames ==
    \/ \E realm \in RealmNames, m \in {1, MaxRequests} :
            RegisterRealm(realm, m, MaxTimespan)
    \/ \E realm \in RealmNames : UnregisterRealm(realm)
    \/ \E realms \in NameLists : UnregisterRealms(realms)
    \/ \E realms \in NameLists : NamesGet(realms)
    \/ NamesTick

NamesSpec == InitNames /\ [][NextNames]_vars

\* ----------------------------------------------------------- RegistrySpec
\* One caller working on the registry: every registry method, with get calls
\* in between that leave request keys behind.
Kwargs ==
    IntKwargs
    \cup { [max_requests |-> IntArg(MaxRequests), timespan |-> IntArg(MaxTimespan)],
           [max_requests |-> StrArg, timespan |-> StrArg, fake |-> BoolArg],
           [max_requests |-> IntArg(0), timespan |-> StrArg],
           [k \in {"fake"} |-> BoolArg] }

RealmTuples ==
    { <<(<<"A">>), 1, 1>>, <<(<<"A">>), MaxRequests, MaxTimespan>>,
      <<(<<"B">>), MaxRequests, MaxTimespan>> }

RealmTupleLists ==
    {<<>>} \cup {<<x>> : x \in RealmTuples} \cup (RealmTuples \X RealmTuples)

InitRegistry ==
    /\ EmptyDb
    /\ safety_threshold = MaxSafety
    /\ Idle
    /\ series = NoSeries

RegistryGet(realms) ==
    GetCall(realms, FALSE, "returns") /\ UNCHANGED series

NextRegistry ==
    \/ \E realm \in PlainRealms, m \in MaxRequestsValues, t \in TimespanValues :
            RegisterRealm(realm, m, t)
    \/ \E realm_tuples \in RealmTupleLists : RegisterRealms(realm_tuples)
    \/ \E realm \in PlainRealms, kwargs \in Kwargs : UpdateRealm(realm, kwargs)
    \/ \E realm \in PlainRealms : UnregisterRealm(realm)
    \/ \E realms \in Requests : UnregisterRealms(realms)
    \/ \E realms \in Requests : RegistryGet(realms)
    \/ \E realm \in PlainRealms : RealmMaxRequests(realm)
    \/ \E realm \in PlainRealms : RealmTimespan(realm)

RegistrySpec == InitRegistry /\ [][NextRegistry]_vars

\* ================================================================ claims
\* What the specification calls a realm's active count, capacity and
\* headroom, read off the database.
ActiveCount(realm) == LiveLeases(requests, realm)

Capacity(realm) == realmInfo[realm]["max_requests"] - safety_threshold

Headroom(realm) == Capacity(realm) - ActiveCount(realm)

Registered(realms) == realms # <<>> /\ Range(realms) \subseteq registeredRealms

Saturated(realms) == {r \in Range(realms) : Headroom(r) <= 0}

RateLimited(record) ==
    /\ record.status = "raised"
    /\ record.exc = "SeleniumRespectfulRateLimitedError"

\* The step is a get call of the caller; last' holds its arguments.
GetStep ==
    /\ last'.op = "get"
    /\ \E actuator \in ActuatorResults : ProxyGet(last'.realms, actuator)

\* C1: a get call over registered realms of which at least one has
\* headroom <= 0 raises the rate-limited error, writes no request key for any
\* realm (every realm's active count is as before) and does not call get_func.
C1_DenialAllOrNothing ==
    [][(last'.op = "get" /\ Registered(last'.realms)
            /\ Saturated(last'.realms) # {} /\ GetStep)
        => /\ RateLimited(last')
           /\ requests' = requests
           /\ \A r \in RealmNames : LiveLeases(requests', r) = ActiveCount(r)
           /\ last'.invoked = 0]_vars

\* C1's case: a request over two realms was denied although one of them had
\* headroom, and that realm has no request key.
C1_Witness ==
    /\ last.op = "get"
    /\ RateLimited(last)
    /\ Len(last.realms) = 2
    /\ \E r \in Range(last.realms) : Headroom(r) > 0 /\ ActiveCount(r) = 0

\* C2: a get call over registered realms that all have headroom > 0 writes
\* exactly one request key for each realm named, with that realm's stored
\* timespan as TTL (so each such realm's active count rises by exactly 1 and
\* no other realm's changes), then calls get_func exactly once and returns
\* what it returns; the keys are written also when get_func raises.
C2_Grant ==
    [][(last'.op = "get" /\ Registered(last'.realms)
            /\ Saturated(last'.realms) = {} /\ GetStep)
        => /\ requests' =
                [r \in RealmNames |->
                    IF r \in Range(last'.realms)
                    THEN [requests[r] EXCEPT ![realmInfo[r]["timespan"]] = @ + 1]
                    ELSE requests[r]]
           /\ \A r \in Range(last'.realms) :
                LiveLeases(requests', r) = ActiveCount(r) + 1
           /\ last'.invoked = 1
           /\ ProxyGet(last'.realms, "returns") => last'.status = "returned"
           /\ ProxyGet(last'.realms, "raises")
                => last'.status = "raised" /\ last'.exc = "WebDriverException"]_vars

\* C2's case: a request over two realms with different timespans was granted
\* and get_func returned; each realm holds a key with its own TTL.
C2_Witness ==
    /\ last.op = "get"
    /\ last.status = "returned"
    /\ last.invoked = 1
    /\ Len(last.realms) = 2
    /\ Registered(last.realms)
    /\ realmInfo[last.realms[1]]["timespan"] # realmInfo[last.realms[2]]["timespan"]
    /\ \A r \in Range(last.realms) : requests[r][realmInfo[r]["timespan"]] = 1

\* The get call was granted: get_func was called.
Granted(record) == record.invoked = 1 /\ ~RateLimited(record)

\* C3: the decision on a realm uses max_requests - safety_threshold: a get
\* call naming one registered realm with k live request keys is granted exactly
\* when k < max_requests - safety_threshold, and raises the rate-limited error
\* otherwise; so a realm with max_requests <= safety_threshold is never
\* admitted, and one with max_requests = safety_threshold + 1 is admitted once.
C3_EffectiveCapacity ==
    [][(last'.op = "get" /\ Len(last'.realms) = 1 /\ Registered(last'.realms)
            /\ GetStep)
        => LET r == last'.realms[1]
               k == LiveLeases(requests, r)
               fits == k < realmInfo[r]["max_requests"] - safety_threshold
           IN /\ Granted(last') <=> fits
              /\ RateLimited(last') <=> ~fits
              /\ realmInfo[r]["max_requests"] <= safety_threshold
                    => RateLimited(last')]_vars

\* C3's case: max_requests = safety_threshold + 1 with a positive threshold;
\* one key is live and the second get call was denied.
C3_Witness ==
    /\ last.op = "get"
    /\ RateLimited(last)
    /\ Len(last.realms) = 1
    /\ Registered(last.realms)
    /\ safety_threshold > 0
    /\ realmInfo[last.realms[1]]["max_requests"] = safety_threshold + 1
    /\ ActiveCount(last.realms[1]) = 1

\* C6: the rate-limited error of a denied get call names exactly the
\* requested realms with headroom <= 0, each once.
C6_NamesSaturated ==
    [][(last'.op = "get" /\ Registered(last'.realms)
            /\ Saturated(last'.realms) # {} /\ GetStep)
        => /\ RateLimited(last')
           /\ Range(last'.named) = Saturated(last'.realms)
           /\ Len(last'.named) = Cardinality(Saturated(last'.realms))]_vars

\* C6's case: both realms of a request were saturated and both are named.
C6_Witness ==
    /\ last.op = "get"
    /\ RateLimited(last)
    /\ Len(last.realms) = 2
    /\ Len(last.named) = 2
    /\ Registered(last.realms)
    /\ Range(last.named) = Saturated(last.realms)

\* The step is a non-blocking get call of the caller on the watched realm.
WatchedGetStep ==
    /\ last'.op = "get"
    /\ last'.realms = <<Watched>>
    /\ ~last'.wait
    /\ \E actuator \in ActuatorResults : TimedGet(<<Watched>>, FALSE, actuator)

\* C4: with max_requests = 1, timespan = T and safety_threshold = 0 a
\* non-blocking get call on the realm is granted when the realm has no live
\* request key (the first call), is denied with the rate-limited error while
\* fewer than T seconds have passed since the last grant, and is granted again
\* once more than T seconds have passed; between the two grants nothing but
\* the passing of time has touched the realm's keys.
C4_SlidingWindow ==
    [][(/\ realmInfo[Watched]["max_requests"] = 1
        /\ safety_threshold = 0
        /\ WatchedGetStep)
        => LET T == realmInfo[Watched]["timespan"]
           IN /\ series.granted = 0 => Granted(last')
              /\ (series.granted > 0 /\ series.since < T)
                    => RateLimited(last') /\ requests' = requests
              /\ series.since > T => Granted(last')]_vars

\* C4's case: the realm admits one request per T seconds, and a non-blocking
\* get call has just been granted on it for at least the second time.
C4_Witness ==
    /\ realmInfo[Watched]["max_requests"] = 1
    /\ safety_threshold = 0
    /\ last.op = "get"
    /\ last.realms = <<Watched>>
    /\ ~last.wait
    /\ Granted(last)
    /\ series.granted >= 2
    /\ series.since = 0

\* The ops of the caller that go through _webdriver_get.
GetOps == {"get", "_webdriver_get"}

\* The step is a first attempt of a get call; last' holds its arguments.
FirstAttemptStep ==
    /\ last'.op \in GetOps
    /\ \/ /\ last'.op = "get"
          /\ \E actuator \in ActuatorResults :
                TimedGet(last'.realms, last'.wait, actuator)
       \/ /\ last'.op = "_webdriver_get"
          /\ TimedWebdriverGet(last'.get_func, last'.realms, last'.wait)

\* C5: a get call naming at least one realm that is not in the registry
\* index raises the library's error for an unregistered realm, naming the
\* first such realm, with wait False and with wait True alike: no request key
\* is written for any realm, get_func is not called, and the caller is not
\* left sleeping.
C5_UnknownRealm ==
    [][(/\ FirstAttemptStep
        /\ last'.realms # <<>>
        /\ ~(Range(last'.realms) \subseteq registeredRealms))
        => /\ last'.status = "raised"
           /\ last'.exc = "SeleniumRespectfulError"
           /\ last'.why = "not_registered"
           /\ Len(last'.named) = 1
           /\ last'.named[1] \in Range(last'.realms) \ registeredRealms
           /\ requests' = requests
           /\ last'.invoked = 0
           /\ pc' = "idle"
           /\ call' = NoCall]_vars

\* C5's case: a blocking get call named a registered realm with headroom and
\* then a realm that has a hash but is not in the index; it raised at once.
C5_Witness ==
    /\ last.op = "get"
    /\ last.wait
    /\ last.status = "raised"
    /\ last.why = "not_registered"
    /\ Len(last.realms) = 2
    /\ last.realms[1] \in registeredRealms
    /\ Headroom(last.realms[1]) > 0
    /\ last.named = <<last.realms[2]>>
    /\ HExists(realmInfo[last.realms[2]], "max_requests")
    /\ pc = "idle"

\* The step is an attempt, first or repeated, of a blocking get call.
BlockingStep ==
    /\ last'.op \in GetOps
    /\ last'.wait
    /\ \/ FirstAttemptStep
       \/ \E actuator \in ActuatorResults : TimedRetry(actuator)

\* get_func calls made by the call in progress before this attempt.
InvokedBefore == IF pc = "awake" THEN call.invoked ELSE 0

\* C7: an attempt of a blocking get call never hands the rate-limited error
\* to the caller. When a requested realm has no headroom the call goes to
\* sleep to try again, with nothing written and get_func not called. Every
\* other failure (unregistered realm, invalid get_func, get_func raising) ends
\* the call in that attempt; get_func is called at most once per call.
C7_AbsorbsOnlyDenials ==
    [][BlockingStep
        => /\ ~RateLimited(last')
           /\ last'.status \in {"waiting", "returned", "raised"}
           /\ last'.status = "waiting"
                <=> /\ Registered(last'.realms)
                    /\ validate_get_func(last'.get_func) = ""
                    /\ Saturated(last'.realms) # {}
           /\ last'.status = "waiting"
                => /\ pc' = "sleeping"
                   /\ call'.realms = last'.realms
                   /\ call'.get_func = last'.get_func
                   /\ requests' = requests
                   /\ last'.invoked = InvokedBefore
           /\ last'.status # "waiting" => pc' = "idle" /\ call' = NoCall
           /\ last'.status = "raised"
                => /\ last'.exc \in {"SeleniumRespectfulError", "WebDriverException"}
                   /\ last'.exc = "SeleniumRespectfulError"
                        => last'.invoked = 0 /\ requests' = requests
                   /\ last'.exc = "WebDriverException" => last'.invoked = 1
           /\ last'.invoked <= 1]_vars

\* C7's case: a blocking get call was denied, slept, tried again, was granted,
\* and get_func raised: the call ended there.
C7_Witness ==
    /\ last.op = "get"
    /\ last.wait
    /\ last.slept
    /\ last.status = "raised"
    /\ last.exc = "WebDriverException"
    /\ last.invoked = 1
    /\ pc = "idle"

\* C8: with registered realms that each have max_requests - safety_threshold
\* >= 1, a get_func that returns and time that keeps passing, a blocking get
\* call (over one realm or over two with different timespans, one call after
\* the other) never raises, and a call that has gone to sleep is eventually
\* granted and returns, get_func called once; on a realm with max_requests = 1,
\* timespan = T and safety_threshold = 0 the n-th grant does not come earlier
\* than T * (n - 1) seconds after the first.
C8_BlockingEventuallyGranted ==
    /\ [](last.op = "get" => last.status \in {"waiting", "returned"})
    /\ []((/\ realmInfo[Watched]["max_requests"] = 1
           /\ safety_threshold = 0
           /\ series.granted >= 1)
          => series.first >= realmInfo[Watched]["timespan"] * (series.granted - 1))
    /\ (pc # "idle")
          ~> (/\ pc = "idle"
              /\ last.op = "get"
              /\ last.status = "returned"
              /\ last.invoked = 1)

\* C8's case: on a realm with max_requests = 1 and the longest timespan the
\* last of MaxCalls blocking calls has slept and returned, no earlier than
\* timespan * (MaxCalls - 1) seconds after the first grant.
C8_Witness ==
    /\ realmInfo[Watched]["max_requests"] = 1
    /\ realmInfo[Watched]["timespan"] = MaxTimespan
    /\ safety_threshold = 0
    /\ series.granted = MaxCalls
    /\ series.first = MaxTimespan * (MaxCalls - 1)
    /\ series.since = 0
    /\ last.op = "get"
    /\ last.wait
    /\ last.slept
    /\ last.status = "returned"
    /\ pc = "idle"

\* The step is a call of register_realm or register_realms by the caller.
RegisterStep ==
    \/ /\ last'.op = "register_realm"
       /\ RegisterRealm(last'.realm, last'.max_requests, last'.timespan)
    \/ /\ last'.op = "register_realms"
       /\ RegisterRealms(last'.realm_tuples)

\* C9: register_realm and register_realms, whatever quota they carry, return
\* and leave every realm that is registered with its stored max_requests and
\* timespan, its entry in the index and its request keys as they were; a
\* registered realm's hash or index entry changes only in a call of
\* update_realm, unregister_realm or unregister_realms.
C9_RegisterNeverOverwrites ==
    [][\A realm \in registeredRealms :
        /\ RegisterStep
            => /\ realmInfo'[realm] = realmInfo[realm]
               /\ realm \in registeredRealms'
               /\ requests'[realm] = requests[realm]
               /\ pc' = "idle"
        /\ (realmInfo'[realm] # realmInfo[realm] \/ realm \notin registeredRealms')
            => last'.op \in {"update_realm", "unregister_realm",
                             "unregister_realms"}]_vars

\* C9's case: register_realm was called on a registered realm with another
\* max_requests and another timespan than the stored ones while the realm
\* held a request key; the stored values and the key are still there.
C9_Witness ==
    /\ last.op = "register_realm"
    /\ last.realm \in registeredRealms
    /\ realmInfo[last.realm]["max_requests"] # last.max_requests
    /\ realmInfo[last.realm]["timespan"] # last.timespan
    /\ ActiveCount(last.realm) > 0

\* C10: register_realm(realm, m, t) called for a realm that is not in the
\* index, after any calls of the registry methods, leaves the realm in the
\* index with max_requests = m and timespan = t stored, so that a get call
\* naming the realm finds it registered.
C10_RegistrationTakesEffect ==
    [][(/\ last'.op = "register_realm"
        /\ last'.realm \notin registeredRealms
        /\ RegisterRealm(last'.realm, last'.max_requests, last'.timespan))
        => /\ last'.realm \in registeredRealms'
           /\ realmInfo'[last'.realm]
                = Definition(last'.max_requests, last'.timespan)]_vars

\* The realms an unregister call of the caller named; last' holds the call.
UnregisterStep ==
    \/ /\ last'.op = "unregister_realm"
       /\ UnregisterRealm(last'.realm)
    \/ /\ last'.op = "unregister_realms"
       /\ UnregisterRealms(last'.realms)

Unregistered(record) ==
    IF record.op = "unregister_realm" THEN {record.realm}
    ELSE Range(record.realms)

\* Nothing of the realm is in the store: no hash, no index entry, no key.
Absent(realm) ==
    /\ realmInfo[realm] = EmptyHash
    /\ realm \notin registeredRealms
    /\ LiveLeases(requests, realm) = 0

\* C11: unregister_realm and unregister_realms return and leave each realm
\* named without hash, without index entry and without request key (its
\* count of requests in the timespan is 0); when nothing of the realms named
\* is in the store (never registered, or unregistered before) the call
\* changes nothing in the store.
C11_UnregisterCascades ==
    [][UnregisterStep
        => /\ \A realm \in Unregistered(last') :
                /\ realmInfo'[realm] = EmptyHash
                /\ realm \notin registeredRealms'
                /\ LiveLeases(requests', realm) = 0
                /\ requests_in_timespan(Db', realm) = 0
           /\ pc' = "idle"
           /\ (\A realm \in Unregistered(last') : Absent(realm))
                => store' = store]_vars

\* The value update_realm is to store in a field: the one supplied if it is
\* an int, the stored one otherwise.
Updated(hash, kwargs, field) ==
    IF field \in DOMAIN kwargs /\ kwargs[field].type = "int"
    THEN kwargs[field].val
    ELSE hash[field]

\* C12: update_realm on a registered realm stores exactly the fields among
\* max_requests and timespan that are supplied with an int value and keeps the
\* stored value of the other; values of another type and unknown keyword names
\* are ignored; it returns, and every other realm's hash, the index, the
\* request keys and the safety threshold are as before. A get call made right
\* after an update that supplied an int max_requests is decided on that value.
C12_UpdateFrame ==
    [][/\ (/\ last'.op = "update_realm"
           /\ last'.realm \in registeredRealms
           /\ UpdateRealm(last'.realm, last'.kwargs))
          => /\ DOMAIN realmInfo'[last'.realm] = {"max_requests", "timespan"}
             /\ \A f \in {"max_requests", "timespan"} :
                  realmInfo'[last'.realm][f]
                    = Updated(realmInfo[last'.realm], last'.kwargs, f)
             /\ \A r \in RealmNames \ {last'.realm} : realmInfo'[r] = realmInfo[r]
             /\ registeredRealms' = registeredRealms
             /\ requests' = requests
             /\ safety_threshold' = safety_threshold
             /\ pc' = "idle"
       /\ (/\ last.op = "update_realm"
           /\ last.realm \in registeredRealms
           /\ "max_requests" \in DOMAIN last.kwargs
           /\ last.kwargs["max_requests"].type = "int"
           /\ last'.op = "get"
           /\ RegistryGet(<<last.realm>>))
          => (Granted(last')
                <=> ActiveCount(last.realm)
                      < last.kwargs["max_requests"].val - safety_threshold)]_vars

\* C12's case: a registered realm holding a request key was updated with an
\* int max_requests and a str timespan: the new max_requests is stored, and
\* the timespan and the key are still there.
C12_Witness ==
    /\ last.op = "update_realm"
    /\ last.realm \in registeredRealms
    /\ last.kwargs = [max_requests |-> IntArg(0), timespan |-> StrArg]
    /\ realmInfo[last.realm] = Definition(0, MaxTimespan)
    /\ ActiveCount(last.realm) > 0

\* The step is a call of realm_max_requests or realm_timespan by the caller.
ReadStep ==
    \/ /\ last'.op = "realm_max_requests"
       /\ RealmMaxRequests(last'.realm)
    \/ /\ last'.op = "realm_timespan"
       /\ RealmTimespan(last'.realm)

\* C13: realm_max_requests and realm_timespan called for a realm that is not
\* in the index (never registered, or unregistered since) raise the library's
\* error, SeleniumRespectfulError: they return no value and raise nothing
\* else.
C13_ReadUnregistered ==
    [][(ReadStep /\ last'.realm \notin registeredRealms)
        => /\ last'.status = "raised"
           /\ last'.exc = "SeleniumRespectfulError"
           /\ last'.value = NoValue]_vars

\* C14: for every registered realm, _requests_in_timespan(realm) is the
\* number of live request keys written for that realm itself: 0 for a fresh
\* realm, k after k granted get calls within the timespan, and never a key of
\* another realm, whatever that realm's name.
C14_CountsOwnKeys ==
    \A realm \in registeredRealms :
        requests_in_timespan(Db, realm) = LiveLeases(requests, realm)

\* The one call shape a get_func may have: a lambda whose body is a call of
\* self.webdriver.get.
AllowedShape(get_func) ==
    get_func.is_lambda /\ get_func.calls = "self.webdriver.get"

\* The step is a call of _webdriver_get with a get_func of the caller's.
GetFuncStep ==
    /\ last'.op = "_webdriver_get"
    /\ GetFuncCall(last'.get_func, last'.realms, last'.wait)

\* C15: a call of _webdriver_get over registered realms with a get_func that
\* is not a lambda calling self.webdriver.get raises the SeleniumRespectfulError
\* of _validate_get_func, with wait or without, whether or not the realms have
\* headroom: no request key is written and get_func is not called; a get_func
\* that is such a lambda passes the validation.
C15_GetFuncValidated ==
    [][(GetFuncStep /\ Registered(last'.realms))
        => /\ ~AllowedShape(last'.get_func)
                => /\ last'.status = "raised"
                   /\ last'.exc = "SeleniumRespectfulError"
                   /\ last'.why \in {"not_a_lambda", "not_a_webdriver_get"}
                   /\ requests' = requests
                   /\ last'.invoked = 0
                   /\ pc' = "idle"
           /\ AllowedShape(last'.get_func)
                => last'.why \notin {"not_a_lambda", "not_a_webdriver_get"}]_vars

\* The file is one the constructor is to accept: all three redis keys, and no
\* safety_threshold or a non-negative int one.
AcceptedFile(file) ==
    /\ file.exists
    /\ file.redis # NoEntry
    /\ expected_redis_keys \subseteq file.redis.val
    /\ \/ file.safety_threshold = NoEntry
       \/ file.safety_threshold.type = "int" /\ file.safety_threshold.val >= 0

\* The configuration an accepted file gives.
FileConfig(file) ==
    [safety_threshold |-> IF file.safety_threshold = NoEntry
                          THEN IntArg(0) ELSE file.safety_threshold,
     redis |-> file.redis.val]

\* C16: with a valid webdriver and Redis reachable, the constructor returns
\* with config a copy of default_config when there is no configuration file,
\* returns with config the content of the file (safety_threshold 0 if the file
\* has none) when the file has all of redis host/port/database and no or a
\* non-negative int safety_threshold, and raises SeleniumRespectfulError for
\* every other file; a config held has a non-negative int safety_threshold.
C16_ConfigAfterConstruction ==
    [][(Construct /\ call.webdriver_ok /\ call.redis_up)
        => /\ ~call.file.exists
                => last'.status = "returned" /\ last'.config = default_config
           /\ AcceptedFile(call.file)
                => /\ last'.status = "returned"
                   /\ last'.config = FileConfig(call.file)
           /\ (call.file.exists /\ ~AcceptedFile(call.file))
                => /\ last'.status = "raised"
                   /\ last'.exc = "SeleniumRespectfulError"
           /\ last'.status = "returned"
                => /\ last'.config.safety_threshold.type = "int"
                   /\ last'.config.safety_threshold.val >= 0]_vars

\* C17: a process writes its request key on the strength of the count it
\* read in its check, whatever the count is when it writes: every setex step
\* of a process follows a check in which that process read a count below
\* max_requests - safety_threshold for the realm, and adds one key. Nothing
\* ties the read to the write, so two processes can both read before either
\* writes and leave more live keys than max_requests - safety_threshold.
C17_CheckThenLease ==
    [][\A p \in Procs :
        Lease(p)
            => LET w == workers[p]
                   realm == w.realms[w.i]
               IN /\ w.seen[w.i] < Capacity(realm)
                  /\ LiveLeases(requests', realm) = ActiveCount(realm) + 1]_vars

\* C17's case: max_requests = 1 and safety_threshold = 0; two processes each
\* read a count of 0 for the realm, both were granted and returned, and two
\* keys of the realm written in the same second are live.
C17_Witness ==
    /\ safety_threshold = 0
    /\ realmInfo[<<"A">>]["max_requests"] = 1
    /\ \A p \in {1, 2} :
        /\ workers[p].realms = <<(<<"A">>)>>
        /\ workers[p].seen = <<0>>
        /\ workers[p].status = "returned"
        /\ workers[p].invoked = 1
    /\ requests[<<"A">>][realmInfo[<<"A">>]["timespan"]] = 2
    /\ ActiveCount(<<"A">>) > Capacity(<<"A">>)

\* C18: with one process making get calls one after another, blocking or
\* not, each naming a realm at most once, on realm definitions and a safety
\* threshold that stay as they are, no registered realm ever has more live
\* request keys than max(0, max_requests - safety_threshold).
C18_SequentialQuota ==
    \A realm \in registeredRealms :
        ActiveCount(realm) <= (IF Capacity(realm) > 0 THEN Capacity(realm) ELSE 0)

\* C18's case: a realm admitting two requests is full, after a blocking call
\* that had to sleep.
C18_Witness ==
    /\ Capacity(Watched) = 2
    /\ ActiveCount(Watched) = 2
    /\ last.op = "get"
    /\ last.slept
    /\ last.status = "returned"

\* C19: with NProcs processes, each in at most one get call at a time and
\* naming a realm at most once, on definitions and a safety threshold that
\* stay as they are, a realm with c = max_requests - safety_threshold >= 1
\* never has more than c + NProcs - 1 live request keys, and a realm with
\* c <= 0 never has one.
C19_BoundedOvershoot ==
    \A realm \in registeredRealms :
        IF Capacity(realm) >= 1
        THEN ActiveCount(realm) <= Capacity(realm) + NProcs - 1
        ELSE ActiveCount(realm) = 0

\* C19's case: the bound is met: a realm with c >= 1 holds c + NProcs - 1
\* live keys, the last one written by a process whose check had read less
\* than c.
C19_Witness ==
    /\ Capacity(<<"A">>) >= 1
    /\ ActiveCount(<<"A">>) = Capacity(<<"A">>) + NProcs - 1
    /\ \E p \in Procs : workers[p].status = "returned" /\ workers[p].invoked = 1

\* The get calls of the processes that have ended, returned or raised.
EndedAttempts ==
    {p \in Procs : workers[p].pc = "idle"
                    /\ workers[p].status \in {"returned", "raised"}}

\* C20: whatever other processes do between the steps of a get call over
\* several realms, the call ends either with a request key written for every
\* realm it named and get_func called, or with no request key written for
\* any realm it named and get_func not called.
C20_AllOrNothingInterleaved ==
    \A p \in EndedAttempts :
        \/ workers[p].leased = workers[p].realms /\ workers[p].invoked = 1
        \/ workers[p].leased = <<>> /\ workers[p].invoked = 0

\* The realm's hash holds both fields of a definition.
Defined(realm) ==
    /\ HExists(realmInfo[realm], "max_requests")
    /\ HExists(realmInfo[realm], "timespan")

\* C22: after any sequence of completed register_realm, register_realms,
\* update_realm, unregister_realm and unregister_realms calls, a name is in
\* the index of registered realms if and only if its hash holds both
\* max_requests and timespan.
C22_RegistryConsistent ==
    \A realm \in RealmNames :
        realm \in registeredRealms <=> Defined(realm)

\* C23: unregister_realm for a registered realm leaves every other
\* registered realm as it was: its hash, its index entry and each of its
\* live request keys, and so the count of its requests in the timespan.
C23_UnregisterFrame ==
    [][\A realm \in registeredRealms :
        (last'.op = "unregister_realm" /\ last'.realm = realm
            /\ UnregisterRealm(realm))
        => \A other \in registeredRealms \ {realm} :
            /\ realmInfo'[other] = realmInfo[other]
            /\ other \in registeredRealms'
            /\ requests'[other] = requests[other]
            /\ requests_in_timespan(Db', other) = requests_in_timespan(Db, other)]_vars

\* C21: once unregister_realm has returned for a realm, no request key of
\* the realm is in the store until the realm is registered again, whatever
\* step of a get call that names the realm another process had reached when
\* the unregister ran: a realm with no hash and no index entry has no live
\* request key, so a realm registered again starts with a count of 0.
C21_NoLeaseOfUnregistered ==
    \A realm \in PlainRealms :
        (realm \notin registeredRealms /\ realmInfo[realm] = EmptyHash)
            => ActiveCount(realm) = 0

====
